---------------------------- MODULE Spec2Model ----------------------------
(***************************************************************************)
(* A model of the retrieval-and-ranking core of the document service:      *)
(*   - compute_numerical_score, parse_kpis_from_response,                  *)
(*     extract_and_enrich_documents      (app/integrations/llm.py)         *)
(*   - extract_metrics                   (app/controllers/documents.py)    *)
(*   - filter_documents, semantic_search (app/api/endpoints/               *)
(*                                        elasticsearch.py)                *)
(*   - query_numeric_documents           (app/api/endpoints/llm.py)        *)
(*   - load_documents_to_elasticsearch, esearch_documents                  *)
(*                                       (app/api/endpoints/               *)
(*                                        elasticsearch.py)                *)
(*   - index_schema, index_documents_in_elasticsearch                      *)
(*                                       (app/integrations/es.py)          *)
(*                                                                         *)
(* Python floats are modelled by exact rationals [n, d] in lowest terms    *)
(* (0.7 is 7/10): no statement checked here is about rounding.  Python's   *)
(* None is the value None below.  Texts are sequences of lexemes: a KPI    *)
(* label, a digit, or a punctuation character.                             *)
(***************************************************************************)
EXTENDS Integers, Sequences, FiniteSets, TLC

VARIABLES
    arg,               \* the argument of the pure function under check
    ret,               \* its result
    pc,                \* position of the handler (or of the function check)
    esIndex,           \* Document Index: the _source records it holds
    req,               \* the request being handled
    calls,             \* external calls made for this request, in order
    documents,         \* the hits the index returned to the handler
    cursor,            \* index in documents of the next one to process
    enriched,          \* enriched_documents of the hybrid and answer flows
    filtered_results,  \* filtered_results of filter-only and semantic search
    ranked_documents,  \* (final, relevance, numerical, doc) tuples, sorted
    response,          \* the HTTP response of the request
    esMapping,         \* Document Index: its mapping, "none" if it is absent
    storage,           \* the documents table, in the order get_all reads it
    reindex,           \* the reindex request: position, locals, response
    search             \* the keyword search request beside it

reindexVars == <<esMapping, storage, reindex, search>>

vars == <<arg, ret, pc, esIndex, req, calls, documents, cursor, enriched,
          filtered_results, ranked_documents, response, reindexVars>>

flowVars == <<esIndex, req, calls, documents, cursor, enriched,
              filtered_results, ranked_documents, response, reindexVars>>

-----------------------------------------------------------------------------
(* Numbers *)

RECURSIVE Gcd(_, _)
Gcd(a, b) == IF b = 0 THEN a ELSE Gcd(b, a % b)

AbsInt(i) == IF i < 0 THEN -i ELSE i

\* The float n/d, in lowest terms with a positive denominator.
Rat(n, d) ==
    LET s == IF d < 0 THEN -1 ELSE 1
        g == Gcd(AbsInt(n), AbsInt(d))
    IN  [n |-> (s * n) \div g, d |-> (s * d) \div g]

Num(i) == [n |-> i, d |-> 1]

\* Python's None.  No float has denominator 0.
None == [n |-> 0, d |-> 0]

RatAdd(x, y) == Rat(x.n * y.d + y.n * x.d, x.d * y.d)
RatSub(x, y) == Rat(x.n * y.d - y.n * x.d, x.d * y.d)
RatMul(x, y) == Rat(x.n * y.n, x.d * y.d)
RatDiv(x, y) == Rat(x.n * y.d, x.d * y.n)
RatAbs(x)    == [n |-> AbsInt(x.n), d |-> x.d]
RatLe(x, y)  == x.n * y.d <= y.n * x.d
RatGe(x, y)  == RatLe(y, x)

\* Python truthiness of an Optional[float]: None and 0.0 are falsy.
Truthy(v) == v # None /\ v # Num(0)

-----------------------------------------------------------------------------
(* The four KPIs *)

Kpis == {"revenue", "net_profit", "revenue_growth_rate",
         "operational_cost_reduction"}

KpiOrder == <<"revenue", "net_profit", "revenue_growth_rate",
              "operational_cost_reduction">>

\* dict.get(key): None when the key is missing.
Get(dict, key) == IF key \in DOMAIN dict THEN dict[key] ELSE None

-----------------------------------------------------------------------------
(* Numeric Scorer *)

default_weights == [k \in Kpis |-> Num(1)]

\* A scorer that reads a missing document value as 0.
ScoreTermNullAsZero(weight, actual, target) ==
    IF target # None
    THEN LET a == IF actual = None THEN Num(0) ELSE actual
         IN  RatDiv(weight, RatAdd(Num(1), RatAbs(RatSub(a, target))))
    ELSE Num(0)

\* A scorer that penalises only a document value above the target.
ScoreTermOneSided(weight, actual, target) ==
    IF target # None /\ actual # None
    THEN LET over == RatSub(actual, target)
         IN  RatDiv(weight, RatAdd(Num(1),
                                   IF RatLe(Num(0), over) THEN over ELSE Num(0)))
    ELSE Num(0)

\* One pass of the loop body: what a KPI adds to score.
ScoreTerm(weight, actual, target) ==
    IF target # None /\ actual # None
    THEN RatDiv(weight, RatAdd(Num(1), RatAbs(RatSub(actual, target))))
    ELSE Num(0)

RECURSIVE ScoreLoop(_, _, _, _)
ScoreLoop(document, query_params, weights, i) ==
    IF i > Len(KpiOrder) THEN Num(0)
    ELSE LET key == KpiOrder[i]
             rest == ScoreLoop(document, query_params, weights, i + 1)
         IN  IF key \in DOMAIN weights
             THEN RatAdd(ScoreTerm(weights[key], Get(document, key),
                                   Get(query_params, key)), rest)
             ELSE rest

\* weights None or {} selects the default weights ("weights or {...}").
NoWeights == [k \in {} |-> None]

compute_numerical_score(document, query_params, weights) ==
    LET w == IF weights = None \/ DOMAIN weights = {} THEN default_weights
             ELSE weights
    IN  ScoreLoop(document, query_params, w, 1)

-----------------------------------------------------------------------------
(* Texts *)

Digits == <<"0", "1", "2", "3", "4", "5", "6", "7", "8", "9">>
DigitSet == {Digits[i] : i \in 1..Len(Digits)}
DigitVal(c) == (CHOOSE i \in 1..Len(Digits) : Digits[i] = c) - 1

\* The regular-expression classes [:\s], [\d,\.] and [\d\.].
SepClass == {":", " ", "\n"}
MoneyClass == DigitSet \cup {",", "."}
PercentClass == DigitSet \cup {"."}

\* str.replace(ch, ""): the text without the lexeme ch.
Remove(text, ch) == SelectSeq(text, LAMBDA c : c # ch)

\* A float conversion that does not raise.
ValueError == [n |-> 1, d |-> 0]

RECURSIVE Pow10(_)
Pow10(k) == IF k = 0 THEN 1 ELSE 10 * Pow10(k - 1)

RECURSIVE DigitsVal(_)
DigitsVal(ds) ==
    IF ds = <<>> THEN 0
    ELSE 10 * DigitsVal(SubSeq(ds, 1, Len(ds) - 1)) + DigitVal(ds[Len(ds)])

\* float(text), for a text of the lexemes above: digits with at most one
\* point and at least one digit, blanks around them ignored; anything else
\* raises ValueError.  (Signs, exponents, "inf", "nan" and "_" are not
\* lexemes of the texts modelled.)
RECURSIVE Strip(_)
Strip(text) ==
    IF text # <<>> /\ text[1] \in {" ", "\n"} THEN Strip(Tail(text))
    ELSE IF text # <<>> /\ text[Len(text)] \in {" ", "\n"}
         THEN Strip(SubSeq(text, 1, Len(text) - 1))
         ELSE text

float(text) ==
    LET t == Strip(text)
        points == {i \in 1..Len(t) : t[i] = "."}
        ds == Remove(t, ".")
    IN  IF \/ \E i \in 1..Len(t) : t[i] \notin PercentClass
           \/ Cardinality(points) > 1
           \/ ds = <<>>
        THEN ValueError
        ELSE LET frac == IF points = {} THEN 0
                         ELSE Len(t) - (CHOOSE i \in points : TRUE)
             IN  Rat(DigitsVal(ds), Pow10(frac))

\* The first index from j on whose lexeme is outside class (Len + 1 if none).
RECURSIVE RunEnd(_, _, _)
RunEnd(text, j, class) ==
    IF j <= Len(text) /\ text[j] \in class THEN RunEnd(text, j + 1, class)
    ELSE j

-----------------------------------------------------------------------------
(* Metric Extractor *)

Label == [revenue |-> "Revenue",
          net_profit |-> "Net Profit",
          revenue_growth_rate |-> "Revenue Growth Rate",
          operational_cost_reduction |-> "Operational Cost Reduction"]

MoneyKpis == {"revenue", "net_profit"}

\* group(1) of  <label>[:\s]+\$([\d,\.]+)  matched at position i, or <<>>.
MoneyMatchAt(text, i, label) ==
    LET j == RunEnd(text, i + 1, SepClass)
        e == RunEnd(text, j + 1, MoneyClass)
    IN  IF /\ text[i] = label
           /\ j > i + 1
           /\ j <= Len(text) /\ text[j] = "$"
           /\ e > j + 1
        THEN SubSeq(text, j + 1, e - 1)
        ELSE <<>>

\* group(1) of  <label>[:\s]+([\d\.]+)%  matched at position i, or <<>>.
PercentMatchAt(text, i, label) ==
    LET j == RunEnd(text, i + 1, SepClass)
        e == RunEnd(text, j, PercentClass)
    IN  IF /\ text[i] = label
           /\ j > i + 1
           /\ e > j
           /\ e <= Len(text) /\ text[e] = "%"
        THEN SubSeq(text, j, e - 1)
        ELSE <<>>

MatchAt(text, i, key) ==
    IF key \in MoneyKpis THEN MoneyMatchAt(text, i, Label[key])
    ELSE PercentMatchAt(text, i, Label[key])

\* A search that gives the rightmost match.
re_search_last(text, key) ==
    LET hits == {i \in 1..Len(text) : MatchAt(text, i, key) # <<>>}
    IN  IF hits = {} THEN <<>>
        ELSE MatchAt(text, CHOOSE i \in hits : \A h \in hits : h <= i, key)

\* re.search: group(1) of the leftmost match, or <<>> when there is none.
re_search(text, key) ==
    LET hits == {i \in 1..Len(text) : MatchAt(text, i, key) # <<>>}
    IN  IF hits = {} THEN <<>>
        ELSE MatchAt(text, CHOOSE i \in hits : \A h \in hits : i <= h, key)

\* The number text handed to float: dollar amounts lose their commas.
NumberTextKeepCommas(group, key) == group

NumberText(group, key) ==
    IF key \in MoneyKpis THEN Remove(group, ",") ELSE group

no_metrics == [k \in Kpis |-> None]

\* The four extractions run in order inside one try block: a conversion
\* that raises ends the function with the metrics found so far.
RECURSIVE ExtractFrom(_, _, _)
ExtractFrom(content, i, metrics) ==
    IF i > Len(KpiOrder) THEN metrics
    ELSE LET key == KpiOrder[i]
             group == re_search(content, key)
             value == float(NumberText(group, key))
         IN  IF group = <<>> THEN ExtractFrom(content, i + 1, metrics)
             ELSE IF value = ValueError THEN metrics
             ELSE ExtractFrom(content, i + 1, [metrics EXCEPT ![key] = value])

extract_metrics(content) == ExtractFrom(content, 1, no_metrics)

-----------------------------------------------------------------------------
(* KPI Responder Bridge: parsing the model's reply *)

\* str.lower() of a lexeme: only labels have letters.
Lower(c) ==
    CASE c = "Revenue" -> "revenue"
      [] c = "Net Profit" -> "net profit"
      [] c = "Revenue Growth Rate" -> "revenue growth rate"
      [] c = "Operational Cost Reduction" -> "operational cost reduction"
      [] OTHER -> c

LowerLabel == [k \in Kpis |-> Lower(Label[k])]

\* response.split("\n")
RECURSIVE SplitLines(_)
SplitLines(text) ==
    LET e == CHOOSE i \in 1..(Len(text) + 1) :
                 /\ (i <= Len(text) => text[i] = "\n")
                 /\ \A j \in 1..(i - 1) : text[j] # "\n"
    IN  IF e > Len(text) THEN <<text>>
        ELSE <<SubSeq(text, 1, e - 1)>>
                 \o SplitLines(SubSeq(text, e + 1, Len(text)))

\* "<label>:" in line_lower
HasLabel(line, key) ==
    \E i \in 1..(Len(line) - 1) :
        Lower(line[i]) = LowerLabel[key] /\ line[i + 1] = ":"

\* line.split(":")[-1]
AfterLastColon(line) ==
    LET colons == {i \in 1..Len(line) : line[i] = ":"}
    IN  IF colons = {} THEN line
        ELSE SubSeq(line,
                    (CHOOSE i \in colons : \A c \in colons : c <= i) + 1,
                    Len(line))

\* The text handed to float: "$" and "," go from the two amounts, "%" from
\* the two rates.
ValueText(line, key) ==
    IF key \in MoneyKpis
    THEN Remove(Remove(Strip(AfterLastColon(line)), "$"), ",")
    ELSE Remove(Strip(AfterLastColon(line)), "%")

\* The if/elif chain: the first label the line holds, in the order revenue,
\* net profit, revenue growth rate, operational cost reduction.
LineKey(line) ==
    LET held == {i \in 1..Len(KpiOrder) : HasLabel(line, KpiOrder[i])}
    IN  IF held = {} THEN "none"
        ELSE KpiOrder[CHOOSE i \in held : \A h \in held : i <= h]

\* The loop with one try around it instead of one for each label.
RECURSIVE ParseLinesOneTry(_, _, _)
ParseLinesOneTry(lines, i, kpis) ==
    IF i > Len(lines) THEN kpis
    ELSE LET key == LineKey(lines[i])
             value == float(ValueText(lines[i], key))
         IN  IF key = "none" THEN ParseLinesOneTry(lines, i + 1, kpis)
             ELSE IF value = ValueError THEN kpis
             ELSE ParseLinesOneTry(lines, i + 1,
                                   [kpis EXCEPT ![key] = value])

RECURSIVE ParseLines(_, _, _)
ParseLines(lines, i, kpis) ==
    IF i > Len(lines) THEN kpis
    ELSE LET key == LineKey(lines[i])
             value == float(ValueText(lines[i], key))
         IN  IF key = "none" \/ value = ValueError
             THEN ParseLines(lines, i + 1, kpis)
             ELSE ParseLines(lines, i + 1, [kpis EXCEPT ![key] = value])

parse_kpis_from_response(response_text) ==
    ParseLines(SplitLines(response_text), 1, no_metrics)

-----------------------------------------------------------------------------
(* Document Index *)

\* The record index_documents_in_elasticsearch writes for document i: its
\* text fields (date, topics and the embedding are left out here) and no
\* KPI field.  Every third document, from the second on, has no content.
Source(i) ==
    [document_id |-> i,
     title |-> <<"title", i>>,
     company |-> "company",
     content |-> IF i % 3 = 2 THEN "" ELSE "content",
     conclusion |-> "conclusion"]

\* The engine's native relevance of a record for a text query, and its
\* cosine similarity to the query vector: both are the engine's to choose,
\* fixed here by the record and the query.
NativeScore(source, query) ==
    IF query = "kpi" THEN Num(1 + (source.document_id % 2)) ELSE Num(0)

CosineSimilarity(source, query_vector) ==
    Rat(source.document_id % 3, 2)

\* {"range": {field: {op: value}}}
Range(field, op, value) == [field |-> field, op |-> op, value |-> value]

SatisfiesRange(source, r) ==
    /\ Get(source, r.field) # None
    /\ IF r.op = "gte" THEN RatGe(source[r.field], r.value)
       ELSE RatLe(source[r.field], r.value)

\* The earliest element of greatest key first, and so on: the order of a
\* stable descending sort.
RECURSIVE SortDesc(_)
SortDesc(items) ==
    IF items = <<>> THEN <<>>
    ELSE LET m == CHOOSE i \in 1..Len(items) :
                      /\ \A j \in 1..Len(items) :
                             RatLe(items[j].key, items[i].key)
                      /\ \A j \in 1..(i - 1) : items[j].key # items[i].key
         IN  <<items[m]>>
                 \o SortDesc(SubSeq(items, 1, m - 1)
                                \o SubSeq(items, m + 1, Len(items)))

Take(seq, n) == SubSeq(seq, 1, IF n < Len(seq) THEN n ELSE Len(seq))

\* es.search(index, body): the hits, best first, at most body.size.
\*   match_all     every record, score 1.0
\*   bool_filter   the records passing every range, score 0.0
\*   multi_match   the records the text matches, by native relevance
\*   script_score  the records passing every range, by cosine + 1.0
es_search(index, body) ==
    LET passes(src) ==
            \A i \in 1..Len(body.filters) :
                SatisfiesRange(src, body.filters[i])
        score(src) ==
            CASE body.kind = "match_all" -> Num(1)
              [] body.kind = "bool_filter" -> Num(0)
              [] body.kind = "multi_match" -> NativeScore(src, body.query)
              [] body.kind = "script_score" ->
                     RatAdd(CosineSimilarity(src, body.query), Num(1))
        matches(src) ==
            /\ passes(src)
            /\ (body.kind = "multi_match" => score(src) # Num(0))
        found == SelectSeq(index, matches)
        scored == [i \in 1..Len(found) |->
                      [key |-> score(found[i]), val |-> found[i]]]
        sorted == SortDesc(scored)
    IN  [i \in 1..Len(Take(sorted, body.size)) |->
            [_score |-> sorted[i].key, _source |-> sorted[i].val]]

Sources(hits) == [i \in 1..Len(hits) |-> hits[i]._source]

\* search_elasticsearch(query, limit): the records only, scores dropped.
MultiMatch(query, limit) ==
    [kind |-> "multi_match", query |-> query, filters |-> <<>>,
     size |-> limit]

search_elasticsearch(index, query, limit) ==
    Sources(es_search(index, MultiMatch(query, limit)))

\* create_filters: a gte range for each min bound and an lte range for
\* each max bound that is not None, revenue first.
RECURSIVE FiltersFrom(_, _)
FiltersFrom(bounds, i) ==
    IF i > Len(KpiOrder) THEN <<>>
    ELSE LET k == KpiOrder[i]
         IN  (IF bounds.min[k] # None
              THEN <<Range(k, "gte", bounds.min[k])>> ELSE <<>>)
             \o (IF bounds.max[k] # None
                 THEN <<Range(k, "lte", bounds.max[k])>> ELSE <<>>)
             \o FiltersFrom(bounds, i + 1)

create_filters(bounds) == FiltersFrom(bounds, 1)

-----------------------------------------------------------------------------
(* The state of a run that only checks a pure function *)

NoRequest == [kind |-> "none"]
NoResponse == [status |-> 0]

\* No reindex and no keyword search under way, on the index the service
\* created with index_schema when it started.
NoReindex ==
    [pc |-> "idle", limit |-> 0, existed |-> FALSE, before |-> <<>>,
     documents |-> <<>>, cursor |-> 1, calls |-> <<>>,
     response |-> NoResponse, runs |-> 0]

NoSearch ==
    [pc |-> "idle", response |-> NoResponse,
     at |-> [pc |-> "idle", absent |-> FALSE, existed |-> FALSE,
             status |-> 0, loaded |-> <<>>]]

ReindexIdle ==
    /\ esMapping = "declared"
    /\ storage = <<>>
    /\ reindex = NoReindex
    /\ search = NoSearch

FlowIdle ==
    /\ esIndex = <<>>
    /\ req = NoRequest
    /\ calls = <<>>
    /\ documents = <<>>
    /\ cursor = 1
    /\ enriched = <<>>
    /\ filtered_results = <<>>
    /\ ranked_documents = <<>>
    /\ response = NoResponse
    /\ ReindexIdle

-----------------------------------------------------------------------------
(* Collaborators and requests *)

MaxDocs == 3
MaxLimit == 2
MaxSupplied == 2

BoundVals == {Num(0), Num(100), Num(300)}
BoundSlots == {"min", "max"} \X Kpis

\* The eight Optional[float] query parameters, None where not supplied.
Bounds(given) ==
    [min |-> [k \in Kpis |-> IF <<"min", k>> \in DOMAIN given
                             THEN given[<<"min", k>>] ELSE None],
     max |-> [k \in Kpis |-> IF <<"max", k>> \in DOMAIN given
                             THEN given[<<"max", k>>] ELSE None]]

BoundSets ==
    {Bounds(given) :
        given \in UNION {[S -> BoundVals] :
                            S \in {T \in SUBSET BoundSlots :
                                       Cardinality(T) <= MaxSupplied}}}

\* The parameters in the order the handlers list them.
BoundList(bounds) ==
    [i \in 1..(2 * Len(KpiOrder)) |->
        IF i % 2 = 1 THEN bounds.min[KpiOrder[(i + 1) \div 2]]
        ELSE bounds.max[KpiOrder[i \div 2]]]

\* any([min_revenue, max_revenue, ...]): some bound is neither None nor 0.
AnyBound(bounds) ==
    \E i \in 1..(2 * Len(KpiOrder)) : Truthy(BoundList(bounds)[i])

\* Optional[str]: no query text is NoneStr.
NoneStr == "<None>"
TruthyStr(q) == q # NoneStr /\ q # ""

\* Replies of the generative model to a KPI extraction prompt:
\*   "Revenue: $200\nNet Profit: 50",  "revenue: 300",  "Revenue: n/a"
KpiReplies ==
    { <<"Revenue", ":", " ", "$", "2", "0", "0", "\n",
        "Net Profit", ":", " ", "5", "0">>,
      <<"revenue", ":", " ", "3", "0", "0">>,
      <<"Revenue", ":", " ", "n/a">> }

\* generate_llm_response either returns the model's text or raises
\* RuntimeError("Error generating LLM response: ...").
KpiOutcomes ==
    {[raised |-> FALSE, text |-> t] : t \in KpiReplies}
        \cup {[raised |-> TRUE, text |-> <<>>]}

AnswerOutcomes ==
    {[raised |-> FALSE, text |-> <<"answer">>], [raised |-> TRUE, text |-> <<>>]}

EsCall(body) == [svc |-> "es", body |-> body]
\* A call to generate_llm_response, with whether it raised.
LlmCall(purpose, raised) ==
    [svc |-> "llm", body |-> [kind |-> purpose, raised |-> raised]]
EmbedCall(text) == [svc |-> "embedding", body |-> [kind |-> text]]

HTTPException(status_code, detail) ==
    [status |-> status_code, detail |-> detail]

Init ==
    /\ arg = None
    /\ ret = None
    /\ pc = "idle"
    /\ \E n \in 0..MaxDocs : esIndex = [i \in 1..n |-> Source(i)]
    /\ req = NoRequest
    /\ calls = <<>>
    /\ documents = <<>>
    /\ cursor = 1
    /\ enriched = <<>>
    /\ filtered_results = <<>>
    /\ ranked_documents = <<>>
    /\ response = NoResponse
    /\ ReindexIdle

\* A request arrives: filter-only search, semantic search (with or without
\* text), the hybrid numeric query or the grounded answer (their text is
\* required; "zzz" is a text no document matches; the grounded answer
\* takes no bounds).  Requests share nothing but the index, which none of
\* these handlers writes, so a run follows one request.
Submit ==
    /\ pc = "idle"
    /\ \E kq \in {<<"efilter", NoneStr>>, <<"semantic", NoneStr>>,
                   <<"semantic", "">>, <<"semantic", "kpi">>,
                   <<"numeric", "kpi">>, <<"numeric", "zzz">>,
                   <<"answer", "kpi">>, <<"answer", "zzz">>},
          limit \in 1..MaxLimit :
           \E bounds \in (IF kq[1] = "answer" THEN {Bounds(<<>>)}
                          ELSE BoundSets) :
               req' = [kind |-> kq[1], query |-> kq[2], bounds |-> bounds,
                       limit |-> limit]
    /\ pc' = "handle"
    /\ calls' = <<>>
    /\ documents' = <<>>
    /\ cursor' = 1
    /\ enriched' = <<>>
    /\ filtered_results' = <<>>
    /\ ranked_documents' = <<>>
    /\ response' = NoResponse
    /\ UNCHANGED <<reindexVars, arg, ret, esIndex>>

Respond(r) ==
    /\ response' = r
    /\ pc' = "done"

-----------------------------------------------------------------------------
(* Filter-only search and semantic search *)

MatchAll(limit) ==
    [kind |-> "match_all", query |-> NoneStr, filters |-> <<>>,
     size |-> limit]

\* The handler's "filters" list: created empty and never added to.
semantic_filters == <<>>

\* The body semantic_search builds: cosine scoring over the filter (over
\* match_all when the list is empty) with a text query, the bare filter
\* without one.
SemanticBody(query, filters, limit) ==
    IF TruthyStr(query)
    THEN [kind |-> "script_score", query |-> query, filters |-> filters,
          size |-> limit]
    ELSE [kind |-> "bool_filter", query |-> NoneStr, filters |-> filters,
          size |-> limit]

\* The search and what both handlers do with its hits.
SearchThenExtract(body) ==
    LET found == Sources(es_search(esIndex, body))
    IN  /\ documents' = found
        /\ IF found = <<>>
           THEN Respond(HTTPException(404, "No documents found."))
           ELSE pc' = "extract" /\ UNCHANGED response

\* filter_documents that searches first and validates afterwards.
FilterStartSearchFirst ==
    /\ pc = "handle"
    /\ req.kind = "efilter"
    /\ calls' = Append(calls, EsCall(MatchAll(req.limit)))
    /\ IF ~AnyBound(req.bounds)
       THEN /\ Respond(HTTPException(400,
                           "At least one filter must be provided."))
            /\ UNCHANGED documents
       ELSE SearchThenExtract(MatchAll(req.limit))
    /\ UNCHANGED <<reindexVars, arg, ret, esIndex, req, cursor, enriched,
                   filtered_results, ranked_documents>>

\* filter_documents up to its loop: the check of the bounds, the match_all
\* search, the check that it found something.
FilterStart ==
    /\ pc = "handle"
    /\ req.kind = "efilter"
    /\ IF ~AnyBound(req.bounds)
       THEN /\ Respond(HTTPException(400,
                           "At least one filter must be provided."))
            /\ UNCHANGED <<calls, documents>>
       ELSE /\ calls' = Append(calls, EsCall(MatchAll(req.limit)))
            /\ SearchThenExtract(MatchAll(req.limit))
    /\ UNCHANGED <<reindexVars, arg, ret, esIndex, req, cursor, enriched,
                   filtered_results, ranked_documents>>

\* semantic_search that embeds the query before it validates.
SemanticStartEmbedFirst ==
    /\ pc = "handle"
    /\ req.kind = "semantic"
    /\ IF ~TruthyStr(req.query) /\ ~AnyBound(req.bounds)
       THEN /\ Respond(HTTPException(400,
                           "At least one filter or a query must be provided."))
            /\ calls' = Append(calls, EmbedCall(req.query))
            /\ UNCHANGED documents
       ELSE LET body == SemanticBody(req.query, semantic_filters, req.limit)
            IN  /\ calls' = calls \o <<EmbedCall(req.query), EsCall(body)>>
                /\ SearchThenExtract(body)
    /\ UNCHANGED <<reindexVars, arg, ret, esIndex, req, cursor, enriched,
                   filtered_results, ranked_documents>>

\* semantic_search up to its loop.
SemanticStart ==
    /\ pc = "handle"
    /\ req.kind = "semantic"
    /\ IF ~TruthyStr(req.query) /\ ~AnyBound(req.bounds)
       THEN /\ Respond(HTTPException(400,
                           "At least one filter or a query must be provided."))
            /\ UNCHANGED <<calls, documents>>
       ELSE LET body == SemanticBody(req.query, semantic_filters, req.limit)
            IN  /\ calls' = calls
                       \o (IF TruthyStr(req.query)
                           THEN <<EmbedCall(req.query)>> ELSE <<>>)
                       \o <<EsCall(body)>>
                /\ SearchThenExtract(body)
    /\ UNCHANGED <<reindexVars, arg, ret, esIndex, req, cursor, enriched,
                   filtered_results, ranked_documents>>

\* The eight comparisons of the handlers' "Apply filters" condition, left
\* to right: a bound that is None is skipped, a KPI that is None makes its
\* comparison raise TypeError (the key is there, so .get gives None and
\* not the default), a comparison that fails ends the chain.
RECURSIVE ApplyFilters(_, _, _)
ApplyFilters(extracted_kpis, bounds, i) ==
    IF i > 2 * Len(KpiOrder) THEN "pass"
    ELSE LET bound == BoundList(bounds)[i]
             value == extracted_kpis[KpiOrder[(i + 1) \div 2]]
         IN  IF bound = None
             THEN ApplyFilters(extracted_kpis, bounds, i + 1)
             ELSE IF value = None THEN "TypeError"
             ELSE IF (IF i % 2 = 1 THEN RatGe(value, bound)
                      ELSE RatLe(value, bound))
             THEN ApplyFilters(extracted_kpis, bounds, i + 1)
             ELSE "fail"

\* One pass of the loop over the hits, the same code in both handlers.
KpiFilterStep ==
    /\ pc = "extract"
    /\ req.kind \in {"efilter", "semantic"}
    /\ cursor <= Len(documents)
    /\ LET doc == documents[cursor]
       IN  IF doc.content = ""
           THEN /\ cursor' = cursor + 1
                /\ UNCHANGED <<pc, calls, filtered_results, response>>
           ELSE \E o \in KpiOutcomes :
                  /\ calls' = Append(calls, LlmCall("kpi", o.raised))
                  /\ IF o.raised
                     THEN /\ Respond(HTTPException(500,
                                         "Error extracting KPIs"))
                          /\ UNCHANGED <<cursor, filtered_results>>
                     ELSE LET extracted_kpis ==
                                  parse_kpis_from_response(o.text)
                              verdict ==
                                  ApplyFilters(extracted_kpis, req.bounds, 1)
                          IN  IF verdict = "TypeError"
                              THEN /\ Respond(HTTPException(500,
                                                  "Internal Server Error"))
                                   /\ UNCHANGED <<cursor, filtered_results>>
                              ELSE /\ cursor' = cursor + 1
                                   /\ filtered_results' =
                                          IF verdict = "pass"
                                          THEN Append(filtered_results,
                                                 [title |-> doc.title,
                                                  content |-> doc.content,
                                                  extracted_kpis |->
                                                      extracted_kpis])
                                          ELSE filtered_results
                                   /\ UNCHANGED <<pc, response>>
    /\ UNCHANGED <<reindexVars, arg, ret, esIndex, req, documents, enriched,
                   ranked_documents>>

\* After the loop: 404 when nothing passed, the results otherwise.
KpiFilterRespond ==
    /\ pc = "extract"
    /\ req.kind \in {"efilter", "semantic"}
    /\ cursor > Len(documents)
    /\ IF filtered_results = <<>>
       THEN Respond(HTTPException(404,
                       "No documents matched the filter criteria."))
       ELSE Respond([status |-> 200, results |-> filtered_results])
    /\ UNCHANGED <<reindexVars, arg, ret, esIndex, req, calls, documents, cursor,
                   enriched, filtered_results, ranked_documents>>

-----------------------------------------------------------------------------
(* Numeric-augmented (hybrid) retrieval *)

\* A hybrid handler that does not ask for a bound.
NumericRejectsNever(bounds) == FALSE

\* The handler's first check: no bound that is neither None nor 0.
NumericRejects(bounds) == ~AnyBound(bounds)

\* query_numeric_documents up to the enrichment: the check of the bounds,
\* the keyword search, the check that it found something.
NumericStart ==
    /\ pc = "handle"
    /\ req.kind = "numeric"
    /\ IF NumericRejects(req.bounds)
       THEN /\ Respond(HTTPException(400,
                  "At least one numerical filter (min and max) must be provided."))
            /\ UNCHANGED <<calls, documents>>
       ELSE LET found == search_elasticsearch(esIndex, req.query, req.limit)
            IN  /\ calls' = Append(calls,
                                   EsCall(MultiMatch(req.query, req.limit)))
                /\ documents' = found
                /\ IF found = <<>>
                   THEN Respond(HTTPException(404,
                                   "No relevant documents found."))
                   ELSE pc' = "enrich" /\ UNCHANGED response
    /\ UNCHANGED <<reindexVars, arg, ret, esIndex, req, cursor, enriched,
                   filtered_results, ranked_documents>>

EnrichedDocument(doc, extracted_kpis) ==
    [title |-> doc.title,
     content |-> doc.content,
     revenue |-> extracted_kpis["revenue"],
     net_profit |-> extracted_kpis["net_profit"],
     revenue_growth_rate |-> extracted_kpis["revenue_growth_rate"],
     operational_cost_reduction |->
         extracted_kpis["operational_cost_reduction"]]

\* An enrichment that asks the model about every hit, content or not.
NumericEnrichStepNoSkip ==
    /\ pc = "enrich"
    /\ req.kind \in {"numeric", "answer"}
    /\ cursor <= Len(documents)
    /\ cursor' = cursor + 1
    /\ \E o \in KpiOutcomes :
           /\ calls' = Append(calls, LlmCall("kpi", o.raised))
           /\ enriched' =
                  Append(enriched,
                         EnrichedDocument(documents[cursor],
                             IF o.raised THEN no_metrics
                             ELSE parse_kpis_from_response(o.text)))
    /\ UNCHANGED <<reindexVars, arg, ret, pc, esIndex, req, documents,
                   filtered_results, ranked_documents, response>>

\* One pass of the loop of extract_and_enrich_documents, which the hybrid
\* and the grounded-answer handler both call: a document without content
\* is left out; a model call that raises leaves the KPIs None.
NumericEnrichStep ==
    /\ pc = "enrich"
    /\ req.kind \in {"numeric", "answer"}
    /\ cursor <= Len(documents)
    /\ cursor' = cursor + 1
    /\ LET doc == documents[cursor]
       IN  IF doc.content = ""
           THEN UNCHANGED <<calls, enriched>>
           ELSE \E o \in KpiOutcomes :
                  /\ calls' = Append(calls, LlmCall("kpi", o.raised))
                  /\ enriched' =
                         Append(enriched,
                                EnrichedDocument(doc,
                                    IF o.raised THEN no_metrics
                                    ELSE parse_kpis_from_response(o.text)))
    /\ UNCHANGED <<reindexVars, arg, ret, pc, esIndex, req, documents, filtered_results,
                   ranked_documents, response>>

\* A filter that lets a document through on a KPI it has no value for.
KeepsDocumentNullPasses(doc, bounds) ==
    \A k \in Kpis :
        /\ ~Truthy(bounds.min[k])
              \/ doc[k] = None \/ RatGe(doc[k], bounds.min[k])
        /\ ~Truthy(bounds.max[k])
              \/ doc[k] = None \/ RatLe(doc[k], bounds.max[k])

\* The condition of the list comprehension "Apply numeric filtering": a
\* bound that is None or 0 is not applied; a KPI that is None fails every
\* bound applied to it.
KeepsDocument(doc, bounds) ==
    \A k \in Kpis :
        /\ ~Truthy(bounds.min[k])
              \/ (doc[k] # None /\ RatGe(doc[k], bounds.min[k]))
        /\ ~Truthy(bounds.max[k])
              \/ (doc[k] # None /\ RatLe(doc[k], bounds.max[k]))

\* query_params: the midpoint where both bounds are neither None nor 0.
QueryParams(bounds) ==
    [k \in Kpis |->
        IF Truthy(bounds.min[k]) /\ Truthy(bounds.max[k])
        THEN RatDiv(RatAdd(bounds.min[k], bounds.max[k]), Num(2))
        ELSE None]

\* "doc in documents": the enriched record equals one of the hits.
InList(doc, list) == \E i \in 1..Len(list) : list[i] = doc

\* A final score with the two weights exchanged.
FinalScoreSwapped(relevance_score, numerical_score) ==
    RatAdd(RatMul(Rat(3, 10), relevance_score),
           RatMul(Rat(7, 10), numerical_score))

\* final_score = 0.7 * relevance_score + 0.3 * numerical_score
FinalScore(relevance_score, numerical_score) ==
    RatAdd(RatMul(Rat(7, 10), relevance_score),
           RatMul(Rat(3, 10), numerical_score))

\* scores[documents.index(doc)] if doc in documents else 0
RelevanceScore(doc, docs, scores) ==
    IF InList(doc, docs)
    THEN scores[CHOOSE i \in 1..Len(docs) :
                    docs[i] = doc /\ \A j \in 1..(i - 1) : docs[j] # doc]
    ELSE Num(0)

\* One pass of the ranking loop.
RankedTuple(doc, bounds, docs, scores) ==
    LET relevance_score == RelevanceScore(doc, docs, scores)
        numerical_score ==
            compute_numerical_score(doc, QueryParams(bounds), None)
    IN  [final_score |-> FinalScore(relevance_score, numerical_score),
         relevance_score |-> relevance_score,
         numerical_score |-> numerical_score,
         doc |-> doc]

\* A ranking left in the order of the hits.
SortRankedForgotten(tuples) == tuples

\* ranked_documents.sort(key=lambda x: x[0], reverse=True)
SortRanked(tuples) ==
    LET items == [i \in 1..Len(tuples) |->
                     [key |-> tuples[i].final_score, val |-> tuples[i]]]
        sorted == SortDesc(items)
    IN  [i \in 1..Len(sorted) |-> sorted[i].val]

RankedEntry(t) ==
    [title |-> t.doc.title,
     content |-> t.doc.content,
     relevance_score |-> t.relevance_score,
     numerical_score |-> t.numerical_score,
     revenue |-> t.doc.revenue,
     net_profit |-> t.doc.net_profit,
     revenue_growth_rate |-> t.doc.revenue_growth_rate,
     operational_cost_reduction |-> t.doc.operational_cost_reduction]

\* After the enrichment: filter, score, sort, ask the model for the answer
\* over the first limit documents, respond.  The handler sets both
\* documents and scores to the list the search returned, so the relevance
\* of an enriched record that is one of the hits would be that hit, a
\* dict, and 0.7 * relevance_score would raise TypeError; an enriched
\* record (title, content, four KPIs) has not the keys of a hit.
NumericRank ==
    /\ pc = "enrich"
    /\ req.kind = "numeric"
    /\ cursor > Len(documents)
    /\ LET scores == documents
           filtered_documents ==
               SelectSeq(enriched, LAMBDA d : KeepsDocument(d, req.bounds))
           ranked == SortRanked([i \in 1..Len(filtered_documents) |->
                        RankedTuple(filtered_documents[i], req.bounds,
                                    documents, scores)])
       IN  IF \E i \in 1..Len(filtered_documents) :
                  InList(filtered_documents[i], documents)
           THEN /\ Respond(HTTPException(500, "Internal Server Error"))
                /\ UNCHANGED <<calls, ranked_documents>>
           ELSE \E o \in AnswerOutcomes :
                  /\ ranked_documents' = ranked
                  /\ calls' = Append(calls, LlmCall("answer", o.raised))
                  /\ IF o.raised
                     THEN Respond(HTTPException(500, "Internal Server Error"))
                     ELSE Respond(
                            [status |-> 200,
                             response |-> o.text,
                             ranked_documents |->
                                 [i \in 1..Len(Take(ranked, req.limit)) |->
                                     RankedEntry(ranked[i])]])
    /\ UNCHANGED <<reindexVars, arg, ret, esIndex, req, documents, cursor, enriched,
                   filtered_results>>

-----------------------------------------------------------------------------
(* Grounded answer: query_documents *)

\* A handler that goes on with an empty list of hits.
AnswerStartUnchecked ==
    /\ pc = "handle"
    /\ req.kind = "answer"
    /\ calls' = Append(calls, EsCall(MultiMatch(req.query, req.limit)))
    /\ documents' = search_elasticsearch(esIndex, req.query, req.limit)
    /\ pc' = "enrich"
    /\ UNCHANGED <<reindexVars, arg, ret, esIndex, req, cursor, enriched,
                   filtered_results, ranked_documents, response>>

\* query_documents up to the enrichment: the keyword search and the check
\* that it found something.
AnswerStart ==
    /\ pc = "handle"
    /\ req.kind = "answer"
    /\ LET found == search_elasticsearch(esIndex, req.query, req.limit)
       IN  /\ calls' = Append(calls, EsCall(MultiMatch(req.query, req.limit)))
           /\ documents' = found
           /\ IF found = <<>>
              THEN Respond(HTTPException(404, "No relevant documents found."))
              ELSE pc' = "enrich" /\ UNCHANGED response
    /\ UNCHANGED <<reindexVars, arg, ret, esIndex, req, cursor, enriched,
                   filtered_results, ranked_documents>>

\* After the enrichment: the model is asked for the answer over all the
\* enriched documents; a failure is reported with its cause.
AnswerRespond ==
    /\ pc = "enrich"
    /\ req.kind = "answer"
    /\ cursor > Len(documents)
    /\ \E o \in AnswerOutcomes :
           /\ calls' = Append(calls, LlmCall("answer", o.raised))
           /\ IF o.raised
              THEN Respond(HTTPException(500, "Error generating LLM response"))
              ELSE Respond([status |-> 200, query |-> req.query,
                            response |-> o.text, documents |-> enriched])
    /\ UNCHANGED <<reindexVars, arg, ret, esIndex, req, documents, cursor,
                   enriched, filtered_results, ranked_documents>>

-----------------------------------------------------------------------------

Next ==
    \/ Submit
    \/ FilterStart
    \/ SemanticStart
    \/ KpiFilterStep
    \/ KpiFilterRespond
    \/ NumericStart
    \/ NumericEnrichStep
    \/ NumericRank
    \/ AnswerStart
    \/ AnswerRespond

Spec == Init /\ [][Next]_vars

-----------------------------------------------------------------------------
(* Claims about the three flows *)

Handled == pc \notin {"idle", "handle"}

\* Every one of the eight bound parameters was left out of the request.
NoBoundSupplied(bounds) ==
    \A k \in Kpis : bounds.min[k] = None /\ bounds.max[k] = None

HasText(q) == q \notin {NoneStr, ""}

EsCalls == SelectSeq(calls, LAMBDA c : c.svc = "es")

\* C1: for every candidate ranked by hybrid retrieval, final_score equals
\* 0.7 * relevance_score + 0.3 * numerical_score, the scores being those
\* the response reports for it.
C1_FinalScoreIsWeightedSum ==
    /\ \A i \in 1..Len(ranked_documents) :
           LET t == ranked_documents[i]
           IN  RatMul(Num(10), t.final_score)
                   = RatAdd(RatMul(Num(7), t.relevance_score),
                            RatMul(Num(3), t.numerical_score))
    /\ (pc = "done" /\ req.kind = "numeric" /\ response.status = 200) =>
           \A i \in 1..Len(response.ranked_documents) :
               /\ response.ranked_documents[i].relevance_score
                      = ranked_documents[i].relevance_score
               /\ response.ranked_documents[i].numerical_score
                      = ranked_documents[i].numerical_score

\* A hybrid response that ranks two candidates, each with revenue 200 at the
\* midpoint of the bounds 100 and 300: numerical score 1, relevance score 0,
\* final score 0.3.
C1_Witness ==
    /\ pc = "done" /\ req.kind = "numeric" /\ response.status = 200
    /\ Len(response.ranked_documents) = 2
    /\ \A i \in 1..2 :
           /\ ranked_documents[i].doc.revenue = Num(200)
           /\ ranked_documents[i].numerical_score = Num(1)
           /\ ranked_documents[i].final_score = Rat(3, 10)

\* The hits the keyword search of the hybrid request produced, with the
\* native relevance score of each.
KeywordHits == es_search(esIndex, MultiMatch(req.query, req.limit))

\* C2: in hybrid retrieval the relevance_score of each ranked candidate is
\* the native relevance score the keyword search gave that candidate.
C2_AsStated ==
    (pc = "done" /\ req.kind = "numeric" /\ response.status = 200) =>
        \A i \in 1..Len(response.ranked_documents) :
            \E h \in 1..Len(KeywordHits) :
                /\ KeywordHits[h]._source.title
                       = response.ranked_documents[i].title
                /\ KeywordHits[h]._score
                       = response.ranked_documents[i].relevance_score

\* C5: a filter-only request that supplies no KPI bound is rejected with
\* status 400, and no call to the index or the model has been made.
C5_FilterNoBoundRejectedFirst ==
    (req.kind = "efilter" /\ NoBoundSupplied(req.bounds) /\ Handled) =>
        /\ pc = "done"
        /\ response.status = 400
        /\ calls = <<>>

C5_Witness ==
    /\ req.kind = "efilter" /\ NoBoundSupplied(req.bounds)
    /\ pc = "done" /\ response.status = 400
    /\ Len(esIndex) > 0

\* C6: a semantic search request with neither query text nor any bound is
\* rejected with status 400, and no call to the embedding generator, the
\* index or the model has been made.
C6_SemanticNothingRejectedFirst ==
    (/\ req.kind = "semantic" /\ ~HasText(req.query)
     /\ NoBoundSupplied(req.bounds) /\ Handled) =>
        /\ pc = "done"
        /\ response.status = 400
        /\ calls = <<>>

C6_Witness ==
    /\ req.kind = "semantic" /\ req.query = "" /\ NoBoundSupplied(req.bounds)
    /\ pc = "done" /\ response.status = 400
    /\ Len(esIndex) > 0

OneRangePerBound(filters, bounds) ==
    /\ \A k \in Kpis :
           /\ Cardinality({i \in 1..Len(filters) :
                               filters[i].field = k /\ filters[i].op = "gte"})
                  = (IF bounds.min[k] = None THEN 0 ELSE 1)
           /\ Cardinality({i \in 1..Len(filters) :
                               filters[i].field = k /\ filters[i].op = "lte"})
                  = (IF bounds.max[k] = None THEN 0 ELSE 1)
    /\ \A i \in 1..Len(filters) :
           filters[i].value = (IF filters[i].op = "gte"
                               THEN bounds.min[filters[i].field]
                               ELSE bounds.max[filters[i].field])

\* C8: the query filter-only search sends to the index holds exactly one
\* range predicate for each supplied bound, and the response is the
\* index's matches, none of them filtered out afterwards.
C8_AsStated ==
    (req.kind = "efilter" /\ Handled) =>
        /\ \A i \in 1..Len(EsCalls) :
               OneRangePerBound(EsCalls[i].body.filters, req.bounds)
        /\ (pc = "done" /\ response.status = 200) =>
               Len(response.results) = Len(documents)

\* C9: in semantic search the index query carries the range predicate of
\* every supplied bound, under the cosine scoring when there is a text
\* query and as a pure filter when there is none.
C9_AsStated ==
    (req.kind = "semantic" /\ Handled) =>
        \A i \in 1..Len(EsCalls) :
            /\ OneRangePerBound(EsCalls[i].body.filters, req.bounds)
            /\ EsCalls[i].body.kind
                   = (IF HasText(req.query) THEN "script_score"
                      ELSE "bool_filter")

-----------------------------------------------------------------------------
(* Numeric Scorer, applied to bounded inputs *)

MaxScoreVal == 1

ScoreDocVals == {None} \cup {Num(i) : i \in 0..MaxScoreVal}
ScoreTargetVals == {None, Num(1), Rat(3, 2)}

\* A document that lacks a key is read with .get, like one that holds None.
ScoreDocs ==
    [Kpis -> ScoreDocVals] \cup [Kpis \ {"net_profit"} -> ScoreDocVals]

\* Weights are non-negative, as the default ones are.
ScoreWeights ==
    { None,
      NoWeights,
      [k \in {"revenue"} |-> Num(2)],
      [k \in Kpis |-> IF k = "revenue" THEN Rat(1, 2)
                      ELSE IF k = "net_profit" THEN Num(0) ELSE Num(2)] }

ScoreInit ==
    /\ arg \in [document : ScoreDocs,
                 query_params : [Kpis -> ScoreTargetVals],
                 weights : ScoreWeights]
    /\ ret = None
    /\ pc = "call"
    /\ FlowIdle

ScoreCall ==
    /\ pc = "call"
    /\ ret' = compute_numerical_score(arg.document, arg.query_params,
                                      arg.weights)
    /\ pc' = "returned"
    /\ UNCHANGED <<arg, flowVars>>

ScoreNext == ScoreCall

SpecScore == ScoreInit /\ [][ScoreNext]_vars

-----------------------------------------------------------------------------
(* Claims about the Numeric Scorer *)

\* |x - y|, written out.
Gap(x, y) == IF RatLe(y, x) THEN RatSub(x, y) ELSE RatSub(y, x)

\* The weight the scorer is asked to use for a KPI: 1.0 when no weights
\* are given, nothing for a KPI the given weights leave out.
GivenWeight(weights, k) ==
    IF weights = None \/ DOMAIN weights = {} THEN Num(1)
    ELSE IF k \in DOMAIN weights THEN weights[k] ELSE Num(0)

BothPresent(document, query_params, k) ==
    /\ k \in DOMAIN document /\ document[k] # None
    /\ k \in DOMAIN query_params /\ query_params[k] # None

ExpectedTerm(a, k) ==
    IF BothPresent(a.document, a.query_params, k)
    THEN RatDiv(GivenWeight(a.weights, k),
                RatAdd(Num(1), Gap(a.document[k], a.query_params[k])))
    ELSE Num(0)

\* C3: compute_numerical_score returns the sum, over exactly the KPIs that
\* are non-null in the document and in the query targets, of
\* weight / (1 + |actual - target|); a KPI null or missing on either side
\* adds 0, and without weights every KPI weighs 1.0.
C3_ScoreIsSumOverPresent ==
    pc = "returned" =>
        ret = RatAdd(RatAdd(ExpectedTerm(arg, "revenue"),
                            ExpectedTerm(arg, "net_profit")),
                     RatAdd(ExpectedTerm(arg, "revenue_growth_rate"),
                            ExpectedTerm(arg, "operational_cost_reduction")))

\* A call without weights in which one KPI is present on both sides with a
\* gap, one is missing in the document, and one is null in the targets.
C3_Witness ==
    /\ pc = "returned"
    /\ arg.weights = None
    /\ BothPresent(arg.document, arg.query_params, "revenue")
    /\ arg.document["revenue"] # arg.query_params["revenue"]
    /\ "net_profit" \notin DOMAIN arg.document
    /\ arg.query_params["net_profit"] # None
    /\ arg.document["revenue_growth_rate"] # None
    /\ arg.query_params["revenue_growth_rate"] = None
    /\ ret # Num(0)

\* What KPI k adds to the score of the call in arg, were its document
\* value x.
Contribution(a, k, x) ==
    RatSub(compute_numerical_score([a.document EXCEPT ![k] = x],
                                   a.query_params, a.weights),
           compute_numerical_score([a.document EXCEPT ![k] = None],
                                   a.query_params, a.weights))

\* C4: for a KPI present on both sides, what it adds to the returned score
\* does not grow when |actual - target| grows, is the same for a gap of
\* either sign, and is exactly the KPI's weight when the gap is 0.
C4_MonotoneSymmetricExact ==
    pc = "returned" =>
        \A k \in Kpis :
            BothPresent(arg.document, arg.query_params, k) =>
                LET t == arg.query_params[k]
                    a == arg.document[k]
                    mine == RatSub(ret,
                              compute_numerical_score(
                                  [arg.document EXCEPT ![k] = None],
                                  arg.query_params, arg.weights))
                IN  /\ \A i \in 0..(MaxScoreVal + 2) :
                           RatLe(Gap(a, t), Gap(Num(i), t)) =>
                               RatLe(Contribution(arg, k, Num(i)), mine)
                    /\ Contribution(arg, k, RatSub(RatAdd(t, t), a)) = mine
                    /\ (a = t => mine = GivenWeight(arg.weights, k))

\* Returned calls with a KPI above its target, with one below it, and with
\* one that meets it, each under a positive weight.
C4_Witness ==
    /\ pc = "returned"
    /\ arg.weights = None
    /\ "net_profit" \in DOMAIN arg.document
    /\ arg.document["revenue"] = Num(1)
    /\ arg.query_params["revenue"] = Rat(3, 2)
    /\ arg.document["net_profit"] = Num(0)
    /\ arg.query_params["net_profit"] = Num(1)
    /\ arg.document["revenue_growth_rate"] = Num(1)
    /\ arg.query_params["revenue_growth_rate"] = Num(1)

-----------------------------------------------------------------------------
(* Metric Extractor, applied to bounded contents *)

MaxLines == 2

\* Number texts: "1,234.50", "12.5", "7", and the malformed "1.2.3".
NumTexts ==
    { <<"1", ",", "2", "3", "4", ".", "5", "0">>,
      <<"1", "2", ".", "5">>,
      <<"7">>,
      <<"1", ".", "2", ".", "3">> }

LineForms == {"money", "percent", "bare"}

\* A line "<label>: $<num>", "<label>: <num>%" or "<label>: <num>".
LineText(line) ==
    <<Label[line.kpi], ":", " ">>
        \o (IF line.form = "money" THEN <<"$">> ELSE <<>>)
        \o line.num
        \o (IF line.form = "percent" THEN <<"%">> ELSE <<>>)

\* "\n".join(lines)
RECURSIVE JoinLines(_)
JoinLines(lines) ==
    IF lines = <<>> THEN <<>>
    ELSE IF Len(lines) = 1 THEN LineText(lines[1])
    ELSE LineText(lines[1]) \o <<"\n">> \o JoinLines(Tail(lines))

Lines == [kpi : Kpis, form : LineForms, num : NumTexts]

\* "Revenue: $500,000\nNet Profit: $120,000\nRevenue Growth Rate: 12.5%"
ScenarioLines ==
    << [kpi |-> "revenue", form |-> "money",
        num |-> <<"5", "0", "0", ",", "0", "0", "0">>],
       [kpi |-> "net_profit", form |-> "money",
        num |-> <<"1", "2", "0", ",", "0", "0", "0">>],
       [kpi |-> "revenue_growth_rate", form |-> "percent",
        num |-> <<"1", "2", ".", "5">>] >>

ExtractInputs ==
    {ScenarioLines} \cup UNION {[1..n -> Lines] : n \in 0..MaxLines}

ExtractInit ==
    /\ \E lines \in ExtractInputs :
           arg = [lines |-> lines, content |-> JoinLines(lines)]
    /\ ret = None
    /\ pc = "call"
    /\ FlowIdle

ExtractCall ==
    /\ pc = "call"
    /\ ret' = extract_metrics(arg.content)
    /\ pc' = "returned"
    /\ UNCHANGED <<arg, flowVars>>

ExtractNext == ExtractCall

SpecExtract == ExtractInit /\ [][ExtractNext]_vars

-----------------------------------------------------------------------------
(* Claims about the Metric Extractor *)

\* The numbers the number texts write, thousands separators dropped.
Written(num) ==
    CASE num = <<"1", ",", "2", "3", "4", ".", "5", "0">> -> Rat(2469, 2)
      [] num = <<"1", "2", ".", "5">> -> Rat(25, 2)
      [] num = <<"7">> -> Num(7)
      [] num = <<"5", "0", "0", ",", "0", "0", "0">> -> Num(500000)
      [] num = <<"1", "2", "0", ",", "0", "0", "0">> -> Num(120000)
      [] OTHER -> None

HasSeparator(num) == \E i \in 1..Len(num) : num[i] = ","

\* A labelled line in the form of its KPI ("$" for revenue and net profit,
\* "%" for the two rates) that writes a number.
WellFormed(line) ==
    /\ Written(line.num) # None
    /\ line.form = (IF line.kpi \in MoneyKpis THEN "money" ELSE "percent")

LinesOf(lines, k) == {i \in 1..Len(lines) : lines[i].kpi = k}

\* Contents made of well-formed labelled lines, at most one for each KPI.
WellFormedContent(lines) ==
    /\ \A i \in 1..Len(lines) : WellFormed(lines[i])
    /\ \A k \in Kpis : Cardinality(LinesOf(lines, k)) <= 1

TheLine(lines, k) == lines[CHOOSE i \in LinesOf(lines, k) : TRUE]

ScenarioMetrics ==
    [revenue |-> Num(500000), net_profit |-> Num(120000),
     revenue_growth_rate |-> Rat(25, 2), operational_cost_reduction |-> None]

C10_ScenarioReached ==
    pc = "returned" /\ arg.lines = ScenarioLines /\ ret = ScenarioMetrics

\* A labelled line in the form of its KPI whose number text the pattern
\* accepts and float rejects ("1.2.3").
Malformed(line) ==
    /\ line.num = <<"1", ".", "2", ".", "3">>
    /\ line.form = (IF line.kpi \in MoneyKpis THEN "money" ELSE "percent")

WithoutLine(lines, i) ==
    SubSeq(lines, 1, i - 1) \o SubSeq(lines, i + 1, Len(lines))

\* Contents with one malformed line, every other line well-formed, at most
\* one line for each KPI.
OneMalformedLine(lines, i) ==
    /\ i \in 1..Len(lines)
    /\ Malformed(lines[i])
    /\ WellFormedContent(WithoutLine(lines, i))
    /\ \A k \in Kpis : Cardinality(LinesOf(lines, k)) <= 1

\* C11 as stated: a malformed number under one KPI label leaves that KPI
\* null, no exception reaches the caller, and every other KPI is extracted
\* from its own well-formed line exactly as if the malformed line were
\* absent.
C11_AsStated ==
    pc = "returned" =>
        \A i \in 1..Len(arg.lines) :
            OneMalformedLine(arg.lines, i) =>
                /\ DOMAIN ret = Kpis
                /\ ret[arg.lines[i].kpi] = None
                /\ \A k \in Kpis \ {arg.lines[i].kpi} :
                       ret[k] = extract_metrics(
                                    JoinLines(WithoutLine(arg.lines, i)))[k]

-----------------------------------------------------------------------------
(* parse_kpis_from_response, applied to bounded replies *)

MaxReplyLines == 2

\* Value texts of a reply line: "$200", "1,234.50", "12.5%", "n/a", "7".
ReplyValues ==
    { <<"$", "2", "0", "0">>,
      <<"1", ",", "2", "3", "4", ".", "5", "0">>,
      <<"1", "2", ".", "5", "%">>,
      <<"n/a">>,
      <<"7">> }

\* A reply line "<label>: <value>", the label as the KPI is written or in
\* lower case.
ReplyLines == [kpi : Kpis, lower : BOOLEAN, value : ReplyValues]

ReplyLineText(line) ==
    <<IF line.lower THEN LowerLabel[line.kpi] ELSE Label[line.kpi], ":", " ">>
        \o line.value

RECURSIVE JoinReply(_)
JoinReply(lines) ==
    IF lines = <<>> THEN <<>>
    ELSE IF Len(lines) = 1 THEN ReplyLineText(lines[1])
    ELSE ReplyLineText(lines[1]) \o <<"\n">> \o JoinReply(Tail(lines))

ParseInit ==
    /\ \E lines \in UNION {[1..n -> ReplyLines] : n \in 0..MaxReplyLines} :
           arg = [lines |-> lines, response |-> JoinReply(lines)]
    /\ ret = None
    /\ pc = "call"
    /\ FlowIdle

ParseCall ==
    /\ pc = "call"
    /\ ret' = parse_kpis_from_response(arg.response)
    /\ pc' = "returned"
    /\ UNCHANGED <<arg, flowVars>>

ParseNext == ParseCall

SpecParse == ParseInit /\ [][ParseNext]_vars

-----------------------------------------------------------------------------
(* Claims about parse_kpis_from_response *)

\* The number a value text gives a KPI, None where the conversion fails:
\* an amount may carry "$" and ",", a rate may carry "%".
ReplyNumber(value, k) ==
    CASE value = <<"$", "2", "0", "0">> ->
             IF k \in MoneyKpis THEN Num(200) ELSE None
      [] value = <<"1", ",", "2", "3", "4", ".", "5", "0">> ->
             IF k \in MoneyKpis THEN Rat(2469, 2) ELSE None
      [] value = <<"1", "2", ".", "5", "%">> ->
             IF k \in MoneyKpis THEN None ELSE Rat(25, 2)
      [] value = <<"7">> -> Num(7)
      [] OTHER -> None

\* The lines of a reply that supply KPI k: labelled k, in either case, with
\* a value that converts.
Supplying(lines, k) ==
    {i \in 1..Len(lines) :
        lines[i].kpi = k /\ ReplyNumber(lines[i].value, k) # None}

\* C12: parse_kpis_from_response raises on no reply; labels are matched
\* line by line in either case; a labelled line whose value fails the
\* conversion is skipped, so a KPI no other line supplies is null and the
\* remaining lines are still parsed (the last line supplying a KPI gives
\* its value).
C12_ParseSkipsBadLines ==
    pc = "returned" =>
        /\ DOMAIN ret = Kpis
        /\ \A k \in Kpis :
               LET from == Supplying(arg.lines, k)
               IN  ret[k] = IF from = {} THEN None
                            ELSE ReplyNumber(
                                     arg.lines[CHOOSE i \in from :
                                                   \A j \in from : j <= i].value,
                                     k)

\* "revenue: n/a" followed by "Net Profit: $200": revenue is null and the
\* second line is still parsed.
C12_Witness ==
    /\ pc = "returned"
    /\ Len(arg.lines) = 2
    /\ arg.lines[1] = [kpi |-> "revenue", lower |-> TRUE, value |-> <<"n/a">>]
    /\ arg.lines[2] = [kpi |-> "net_profit", lower |-> FALSE,
                       value |-> <<"$", "2", "0", "0">>]
    /\ ret["revenue"] = None
    /\ ret["net_profit"] = Num(200)

-----------------------------------------------------------------------------
(* Claims about failures of the generative model *)

LlmFailed == \E i \in 1..Len(calls) : calls[i].svc = "llm" /\ calls[i].body.raised

\* C13 as stated: whenever a call to the generative model fails, in any
\* flow and at any step (the KPI extraction of one document or the final
\* answer), the request is aborted and answered with an error; it never
\* ends in a successful response.
C13_AsStated ==
    (pc = "done" /\ LlmFailed) => response.status = 500

\* C14 as stated: in filter-only and semantic search a document for which
\* a bounded KPI could not be extracted never aborts the request: unless a
\* call to the model itself failed, the loop reaches its end and the
\* request is answered with the matching documents, or with 404 when no
\* document matches.
C14_AsStated ==
    (pc = "done" /\ req.kind \in {"efilter", "semantic"} /\ ~LlmFailed) =>
        response.status \in {200, 400, 404}

-----------------------------------------------------------------------------
(* Reindexing: load_documents_to_elasticsearch beside esearch_documents *)

MaxRuns == 2

\* A row of the documents table (date and topics left out as in Source):
\* the text columns of Source(i) and the four nullable KPI columns.
Document(i) ==
    [document_id |-> i,
     title |-> <<"title", i>>,
     company |-> "company",
     content |-> IF i % 3 = 2 THEN "" ELSE "content",
     conclusion |-> "conclusion",
     revenue |-> Num(100 * i),
     net_profit |-> IF i % 2 = 0 THEN Num(100) ELSE None,
     revenue_growth_rate |-> None,
     operational_cost_reduction |-> None]

\* The "_source" index_documents_in_elasticsearch builds from a row.
IndexRecord(doc) ==
    [document_id |-> doc.document_id,
     title |-> doc.title,
     company |-> doc.company,
     content |-> doc.content,
     conclusion |-> doc.conclusion]

\* Writing a record under its "_id": it replaces the record of that id.
Upsert(index, rec) ==
    IF \E j \in 1..Len(index) : index[j].document_id = rec.document_id
    THEN [j \in 1..Len(index) |->
             IF index[j].document_id = rec.document_id THEN rec
             ELSE index[j]]
    ELSE Append(index, rec)

\* The ids of a set in ascending order.
RECURSIVE Ascending(_)
Ascending(ids) ==
    IF ids = {} THEN <<>>
    ELSE LET m == CHOOSE i \in ids : \A j \in ids : i <= j
         IN  <<m>> \o Ascending(ids \ {m})

\* The service has started (the index exists, with the declared mapping);
\* the index holds the records of an earlier load, the table some rows.
ReindexInit ==
    /\ arg = None
    /\ ret = None
    /\ pc = "idle"
    /\ req = NoRequest
    /\ calls = <<>>
    /\ documents = <<>>
    /\ cursor = 1
    /\ enriched = <<>>
    /\ filtered_results = <<>>
    /\ ranked_documents = <<>>
    /\ response = NoResponse
    /\ esMapping = "declared"
    /\ \E old \in SUBSET (1..MaxDocs) :
           esIndex = [i \in 1..Cardinality(old) |->
                         IndexRecord(Document(Ascending(old)[i]))]
    /\ \E rows \in SUBSET (1..MaxDocs) :
           storage = [i \in 1..Cardinality(rows) |->
                         Document(Ascending(rows)[i])]
    /\ reindex = NoReindex
    /\ search = NoSearch

\* GET /edocuments arrives.
ReindexSubmit ==
    /\ reindex.pc \in {"idle", "done"}
    /\ reindex.runs < MaxRuns
    /\ \E limit \in 1..MaxLimit :
           reindex' = [NoReindex EXCEPT !.pc = "start", !.limit = limit,
                                        !.runs = reindex.runs + 1]
    /\ UNCHANGED <<arg, ret, pc, esIndex, req, calls, documents, cursor,
                   enriched, filtered_results, ranked_documents, response,
                   esMapping, storage, search>>

\* A handler that leaves the existing index in place.
ReindexDropKeeps ==
    /\ reindex.pc = "start"
    /\ reindex' = [reindex EXCEPT !.pc = "dropped",
                                  !.existed = (esMapping # "none"),
                                  !.before = esIndex,
                                  !.calls = <<"exists">>]
    /\ UNCHANGED <<arg, ret, pc, esIndex, req, calls, documents, cursor,
                   enriched, filtered_results, ranked_documents, response,
                   esMapping, storage, search>>

\* es.indices.exists, and es.indices.delete if it does: the handler then
\* awaits the table.
ReindexDrop ==
    /\ reindex.pc = "start"
    /\ IF esMapping # "none"
       THEN /\ esIndex' = <<>>
            /\ esMapping' = "none"
            /\ reindex' = [reindex EXCEPT !.pc = "dropped",
                                          !.existed = TRUE,
                                          !.before = esIndex,
                                          !.calls = <<"exists", "delete">>]
       ELSE /\ reindex' = [reindex EXCEPT !.pc = "dropped",
                                          !.existed = FALSE,
                                          !.before = esIndex,
                                          !.calls = <<"exists">>]
            /\ UNCHANGED <<esIndex, esMapping>>
    /\ UNCHANGED <<arg, ret, pc, req, calls, documents, cursor, enriched,
                   filtered_results, ranked_documents, response, storage,
                   search>>

\* get_all(limit) returns: 404 when the table is empty, else the actions
\* are built and handed to bulk.
ReindexFetch ==
    /\ reindex.pc = "dropped"
    /\ LET rows == Take(storage, reindex.limit)
       IN  IF rows = <<>>
           THEN reindex' = [reindex EXCEPT
                               !.pc = "done",
                               !.response = HTTPException(404,
                                                "No documents found.")]
           ELSE reindex' = [reindex EXCEPT
                               !.pc = "loading",
                               !.documents = rows,
                               !.calls = Append(reindex.calls, "bulk")]
    /\ UNCHANGED <<arg, ret, pc, esIndex, req, calls, documents, cursor,
                   enriched, filtered_results, ranked_documents, response,
                   esMapping, storage, search>>

\* bulk writes the next action.  Writing to an index that does not exist
\* creates it, with a mapping the engine derives from the record and not
\* with index_schema.
ReindexBulkStep ==
    /\ reindex.pc = "loading"
    /\ reindex.cursor <= Len(reindex.documents)
    /\ esIndex' = Upsert(esIndex,
                         IndexRecord(reindex.documents[reindex.cursor]))
    /\ esMapping' = IF esMapping = "none" THEN "dynamic" ELSE esMapping
    /\ reindex' = [reindex EXCEPT !.cursor = reindex.cursor + 1]
    /\ UNCHANGED <<arg, ret, pc, req, calls, documents, cursor, enriched,
                   filtered_results, ranked_documents, response, storage,
                   search>>

\* generate_embedding or bulk raises on the next action: nothing catches
\* it, the request fails and what was written stays written.
ReindexBulkRaises ==
    /\ reindex.pc = "loading"
    /\ reindex.cursor <= Len(reindex.documents)
    /\ reindex' = [reindex EXCEPT
                      !.pc = "done",
                      !.response = HTTPException(500,
                                       "Internal Server Error")]
    /\ UNCHANGED <<arg, ret, pc, esIndex, req, calls, documents, cursor,
                   enriched, filtered_results, ranked_documents, response,
                   esMapping, storage, search>>

\* bulk has returned.
ReindexFinish ==
    /\ reindex.pc = "loading"
    /\ reindex.cursor > Len(reindex.documents)
    /\ reindex' = [reindex EXCEPT
                      !.pc = "done",
                      !.response = [status |-> 200,
                                    detail |->
                                        "Documents indexed successfully"]]
    /\ UNCHANGED <<arg, ret, pc, esIndex, req, calls, documents, cursor,
                   enriched, filtered_results, ranked_documents, response,
                   esMapping, storage, search>>

\* A keyword search that answers with no results when the index is absent.
EsearchResponseLenient(mapping, index, query, limit) ==
    [status |-> 200,
     results |-> IF mapping = "none" THEN <<>>
                 ELSE search_elasticsearch(index, query, limit)]

\* The response of esearch_documents: es.search raises NotFoundError when
\* the index is absent and nothing catches it.
EsearchResponse(mapping, index, query, limit) ==
    IF mapping = "none"
    THEN HTTPException(500, "Internal Server Error")
    ELSE [status |-> 200,
          results |-> search_elasticsearch(index, query, limit)]

\* POST /esearch, whatever the reindex request is doing.
EsearchDocuments ==
    /\ search.pc = "idle"
    /\ \E limit \in 1..MaxDocs :
           search' = [pc |-> "done",
                      response |-> EsearchResponse(esMapping, esIndex,
                                                   "kpi", limit),
                      at |-> [pc |-> reindex.pc,
                              absent |-> (esMapping = "none"),
                              existed |-> reindex.existed,
                              status |-> reindex.response.status,
                              loaded |-> SubSeq(reindex.documents, 1,
                                                reindex.cursor - 1)]]
    /\ UNCHANGED <<arg, ret, pc, esIndex, req, calls, documents, cursor,
                   enriched, filtered_results, ranked_documents, response,
                   esMapping, storage, reindex>>

ReindexNext ==
    \/ ReindexSubmit
    \/ ReindexDrop
    \/ ReindexFetch
    \/ ReindexBulkStep
    \/ ReindexBulkRaises
    \/ ReindexFinish
    \/ EsearchDocuments

SpecReindex == ReindexInit /\ [][ReindexNext]_vars

-----------------------------------------------------------------------------
(* Claims about reindexing *)

RecordsOf(rows) == {IndexRecord(rows[i]) : i \in 1..Len(rows)}
Held(index) == {index[i] : i \in 1..Len(index)}

\* C15: after a reindex request on an existing index has completed
\* successfully, the index holds exactly the records of the rows that
\* request loaded from the table (the first `limit` rows) and no record
\* that was there only before the deletion; a search issued then gets
\* records of those rows only.
C15_ReindexLeavesOnlyNewData ==
    /\ (reindex.pc = "done" /\ reindex.response.status = 200
            /\ reindex.existed) =>
           /\ reindex.documents = Take(storage, reindex.limit)
           /\ Held(esIndex) = RecordsOf(reindex.documents)
           /\ Len(esIndex) = Len(reindex.documents)
    /\ (search.pc = "done" /\ search.at.pc = "done"
            /\ search.at.status = 200 /\ search.at.existed) =>
           /\ search.response.status = 200
           /\ Held(search.response.results) \subseteq RecordsOf(search.at.loaded)

\* A completed reindex of an index that held a record of a row the request
\* did not load, followed by a search that found something.
C15_Witness ==
    /\ reindex.pc = "done" /\ reindex.response.status = 200
    /\ reindex.existed
    /\ Held(reindex.before) \ RecordsOf(reindex.documents) # {}
    /\ search.pc = "done" /\ search.at.pc = "done"
    /\ search.response.status = 200
    /\ search.response.results # <<>>

\* C16 as stated: reindex drops the existing index, re-creates it and then
\* bulk loads: in every run the bulk load comes after an explicit creation
\* of the index that follows the drop, so the loaded index has the declared
\* mapping (with the 384-dimension embedding vector field).
C16_AsStated ==
    (reindex.pc \in {"loading", "done"} /\ reindex.existed
        /\ \E i \in 1..Len(reindex.calls) : reindex.calls[i] = "bulk") =>
        /\ \E i, j, k \in 1..Len(reindex.calls) :
               /\ i < j /\ j < k
               /\ reindex.calls[i] = "delete"
               /\ reindex.calls[j] = "create"
               /\ reindex.calls[k] = "bulk"
        /\ (reindex.cursor > 1 => esMapping = "declared")

\* C17: reindex gives a concurrent search no isolation.  A search that
\* executes after the deletion of the index and before the bulk load has
\* finished fails while the index is absent, and otherwise gets only
\* records the load has written so far: it misses the documents that were
\* indexed before the reindex and are still in the table.  The witness is
\* such an interleaving.
C17_SearchInsideReindex ==
    (search.pc = "done" /\ search.at.pc \in {"dropped", "loading"}
        /\ search.at.existed) =>
        IF search.at.absent
        THEN search.response.status = 500
        ELSE /\ search.response.status = 200
             /\ Held(search.response.results)
                    \subseteq RecordsOf(search.at.loaded)

\* The search ran while the reindex request awaited the table, after the
\* deletion: it failed, although a record the index held before is of a
\* row that is still in the table.
C17_Witness ==
    /\ search.pc = "done"
    /\ search.at.pc = "dropped" /\ search.at.existed
    /\ reindex.pc = "dropped"
    /\ search.response.status = 500
    /\ Held(reindex.before) \cap RecordsOf(storage) # {}

\* The range predicates on one KPI field.
KpiRanges == {Range(k, op, v) : k \in Kpis, op \in {"gte", "lte"},
                                v \in BoundVals}

\* The ids of the records a query of the index with one range predicate
\* matches.
RangeMatches(index, r) ==
    LET hits == es_search(index, [kind |-> "bool_filter", query |-> NoneStr,
                                  filters |-> <<r>>, size |-> Len(index)])
    IN  {hits[i]._source.document_id : i \in 1..Len(hits)}

\* C18 as stated: every record the bulk upsert writes carries the four KPI
\* fields of its row, so that after a reindex a range predicate on a KPI
\* field matches exactly the indexed documents whose stored KPI lies in the
\* range.
C18_AsStated ==
    (reindex.pc = "done" /\ reindex.response.status = 200) =>
        /\ \A i \in 1..Len(esIndex) : Kpis \subseteq DOMAIN esIndex[i]
        /\ \A r \in KpiRanges :
               RangeMatches(esIndex, r)
                   = {reindex.documents[i].document_id :
                        i \in {j \in 1..Len(reindex.documents) :
                                 SatisfiesRange(reindex.documents[j], r)}}

-----------------------------------------------------------------------------
(* Claims about the ranking of the hybrid flow *)

\* Ten times the final score of a response entry, from the two scores the
\* entry reports.
TenFinal(entry) ==
    RatAdd(RatMul(Num(7), entry.relevance_score),
           RatMul(Num(3), entry.numerical_score))

MidpointTarget(bounds, k) ==
    IF bounds.min[k] # None /\ bounds.max[k] # None
    THEN RatDiv(RatAdd(bounds.min[k], bounds.max[k]), Num(2))
    ELSE None

\* What a KPI adds to the numerical score of a document for a target.
TargetTerm(doc, target, k) ==
    IF doc[k] = None \/ target = None THEN Num(0)
    ELSE RatDiv(Num(1), RatAdd(Num(1), RatAbs(RatSub(doc[k], target))))

ScoreForMidpoints(doc, bounds) ==
    RatAdd(RatAdd(TargetTerm(doc, MidpointTarget(bounds, "revenue"),
                             "revenue"),
                  TargetTerm(doc, MidpointTarget(bounds, "net_profit"),
                             "net_profit")),
           RatAdd(TargetTerm(doc,
                             MidpointTarget(bounds, "revenue_growth_rate"),
                             "revenue_growth_rate"),
                  TargetTerm(doc,
                             MidpointTarget(bounds,
                                            "operational_cost_reduction"),
                             "operational_cost_reduction")))

\* C20 as stated: in hybrid retrieval the target of a KPI is
\* (min + max) / 2 for every KPI with both bounds supplied, and a KPI with
\* one bound or none has no target and adds nothing: the numerical score
\* of every ranked candidate is its score against those targets.
C20_AsStated ==
    (pc = "done" /\ req.kind = "numeric" /\ response.status = 200) =>
        \A i \in 1..Len(ranked_documents) :
            ranked_documents[i].numerical_score
                = ScoreForMidpoints(ranked_documents[i].doc, req.bounds)

-----------------------------------------------------------------------------
(* Claims about the enrichment of the hybrid flow *)

KpiCalls ==
    SelectSeq(calls, LAMBDA c : c.svc = "llm" /\ c.body.kind = "kpi")

\* The row of the documents table a hit was indexed from.
RowOf(hit) == Document(hit.document_id)

HasStoredKpis(hit) == \E k \in Kpis : RowOf(hit)[k] # None

\* The hits the enrichment loop has gone through.
Processed == SubSeq(documents, 1, cursor - 1)

\* C21 as stated: in hybrid retrieval the model is called for a candidate
\* only when the candidate's stored KPI fields are absent; a candidate
\* with stored KPI values is scored from them without a model call.
C21_AsStated ==
    (req.kind = "numeric" /\ pc \in {"enrich", "done"}) =>
        Len(KpiCalls)
            <= Cardinality({i \in 1..Len(Processed) :
                               ~HasStoredKpis(Processed[i])})

LlmCalls == SelectSeq(calls, LAMBDA c : c.svc = "llm")

\* C22: in the grounded-answer and hybrid flows, when the keyword search
\* returns no candidate the request ends with 404 "No relevant documents
\* found." and no KPI extraction, scoring or model call happens in it.
C22_EmptySearchEndsNotFound ==
    (req.kind \in {"answer", "numeric"} /\ Len(EsCalls) = 1
        /\ KeywordHits = <<>>) =>
        /\ pc = "done"
        /\ response = HTTPException(404, "No relevant documents found.")
        /\ LlmCalls = <<>>
        /\ enriched = <<>>
        /\ ranked_documents = <<>>

\* A grounded-answer request whose text matches none of the documents the
\* index holds.
C22_Witness ==
    /\ pc = "done" /\ req.kind = "answer"
    /\ esIndex # <<>>
    /\ Len(EsCalls) = 1 /\ KeywordHits = <<>>
    /\ response.status = 404

\* The enrichment loop is at a hit that has no content.
AtEmptyContent ==
    /\ pc = "enrich"
    /\ req.kind \in {"numeric", "answer"}
    /\ cursor <= Len(documents)
    /\ documents[cursor].content = ""

\* C23: a candidate with empty content triggers no KPI extraction call and
\* does not fail the request (the loop just moves on), and it gets no
\* numeric score: it is in neither the enriched nor the ranked documents,
\* so it is never scored as though its KPIs were 0.
C23_EmptyContentSkipped ==
    /\ [][AtEmptyContent =>
            /\ calls' = calls
            /\ enriched' = enriched
            /\ pc' = "enrich" /\ response' = response
            /\ cursor' = cursor + 1]_vars
    /\ [](/\ \A i \in 1..Len(enriched) : enriched[i].content # ""
          /\ \A i \in 1..Len(ranked_documents) :
                 ranked_documents[i].doc.content # "")

\* A hybrid request that got two hits, one of them without content, and
\* ranked the other one alone after a single KPI extraction call.
C23_Witness ==
    /\ pc = "done" /\ req.kind = "numeric" /\ response.status = 200
    /\ Len(documents) = 2
    /\ \E i \in 1..2 : documents[i].content = ""
    /\ Len(KpiCalls) = 1
    /\ Len(response.ranked_documents) = 1

-----------------------------------------------------------------------------
(* Claims about the resolution order of the two extraction paths *)

\* A well-formed line the pattern of its KPI matches: a rate is written
\* without thousands separator.
Occurrence(line) ==
    /\ WellFormed(line)
    /\ (line.kpi \notin MoneyKpis => ~HasSeparator(line.num))

OccurrencesOf(lines, k) ==
    {i \in 1..Len(lines) : lines[i].kpi = k /\ Occurrence(lines[i])}

C25_AsStated ==
    pc = "returned" =>
        \A k \in Kpis :
            LET from == Supplying(arg.lines, k)
            IN  from # {} =>
                    ret[k] = ReplyNumber(
                                 arg.lines[CHOOSE i \in from :
                                               \A j \in from : i <= j].value,
                                 k)

-----------------------------------------------------------------------------
(* Claims about bounds of value 0 *)

\* Some bound was supplied and every supplied bound is 0.
OnlyZeroBounds(bounds) ==
    /\ ~NoBoundSupplied(bounds)
    /\ \A k \in Kpis : /\ bounds.min[k] \in {None, Num(0)}
                       /\ bounds.max[k] \in {None, Num(0)}

\* C26 as stated: a bound supplied with the value 0 counts as supplied: a
\* filter-only, semantic or hybrid request whose only supplied bounds are
\* 0 passes validation and is not rejected with status 400.
C26_AsStated ==
    (pc = "done" /\ req.kind \in {"efilter", "semantic", "numeric"}
        /\ OnlyZeroBounds(req.bounds)) =>
        response.status # 400

-----------------------------------------------------------------------------
(* Claims about the numeric filter of the hybrid flow *)

NonZero(bound) == bound # None /\ bound # Num(0)

\* The record has a value of every KPI bounded by a non-zero bound, and
\* the value is within the bound.
WithinNonZeroBounds(rec, bounds) ==
    \A k \in Kpis :
        /\ NonZero(bounds.min[k]) =>
               (rec[k] # None /\ RatLe(bounds.min[k], rec[k]))
        /\ NonZero(bounds.max[k]) =>
               (rec[k] # None /\ RatLe(rec[k], bounds.max[k]))

\* C27: every document in the ranked_documents of a hybrid response has,
\* for each bound supplied with a non-zero value, a non-null value of that
\* KPI that satisfies the bound; a candidate whose KPI is null or outside
\* a bound is removed before the scoring.
C27_RankedWithinBounds ==
    /\ \A i \in 1..Len(ranked_documents) :
           WithinNonZeroBounds(ranked_documents[i].doc, req.bounds)
    /\ (pc = "done" /\ req.kind = "numeric" /\ response.status = 200) =>
           /\ \A i \in 1..Len(response.ranked_documents) :
                  WithinNonZeroBounds(response.ranked_documents[i],
                                      req.bounds)
           /\ Len(ranked_documents)
                  = Cardinality({i \in 1..Len(enriched) :
                        WithinNonZeroBounds(enriched[i], req.bounds)})

\* Two candidates under min_revenue = 300: the one with revenue 300 is
\* ranked, the one whose reply gave no revenue is not.
C27_Witness ==
    /\ pc = "done" /\ req.kind = "numeric" /\ response.status = 200
    /\ req.bounds.min["revenue"] = Num(300)
    /\ Len(enriched) = 2
    /\ \E i \in 1..2 : enriched[i].revenue = None
    /\ Len(response.ranked_documents) = 1
    /\ response.ranked_documents[1].revenue = Num(300)

-----------------------------------------------------------------------------
(* Claims about the completeness of filter-only search *)

\* The stored KPIs of the row satisfy every supplied bound.
RowSatisfies(row, bounds) ==
    \A k \in Kpis :
        /\ bounds.min[k] # None =>
               (row[k] # None /\ RatLe(bounds.min[k], row[k]))
        /\ bounds.max[k] # None =>
               (row[k] # None /\ RatLe(row[k], bounds.max[k]))

\* The indexed documents the handler never retrieved.
NotRetrieved ==
    {i \in 1..Len(esIndex) : ~InList(esIndex[i], documents)}

\* C28 as stated: filter-only search is complete up to `limit`: NotFound
\* is returned only when no indexed document satisfies the supplied
\* bounds, whatever the number of documents in the index; so when it is
\* returned, no document the handler has not even retrieved satisfies them.
C28_AsStated ==
    (pc = "done" /\ req.kind = "efilter" /\ response.status = 404) =>
        \A i \in NotRetrieved : ~RowSatisfies(RowOf(esIndex[i]), req.bounds)

-----------------------------------------------------------------------------
(* Claims about failed reindex requests *)

\* C29 as stated: reindex is all-or-nothing: when a reindex request ends in
\* an error (no row in the table, or the embedding or the bulk load
\* raises), the index exists and holds the documents it held before the
\* request.
C29_AsStated ==
    (reindex.pc = "done" /\ reindex.response.status # 200
        /\ reindex.existed) =>
        /\ esMapping # "none"
        /\ esIndex = reindex.before

-----------------------------------------------------------------------------
(* Claims about the answer of the hybrid flow *)

AnswerCalls ==
    SelectSeq(calls, LAMBDA c : c.svc = "llm" /\ c.body.kind = "answer")

\* C30 as stated: in hybrid retrieval the answer is requested from the
\* model only when at least one ranked document remains; when the bounds
\* remove every candidate (and no model call has failed) the request ends
\* with 404 and no answer call.
C30_AsStated ==
    (pc = "done" /\ req.kind = "numeric" /\ documents # <<>> /\ ~LlmFailed
        /\ \A i \in 1..Len(enriched) :
               ~WithinNonZeroBounds(enriched[i], req.bounds)) =>
        /\ AnswerCalls = <<>>
        /\ response.status = 404

=============================================================================
